---------------------------- MODULE Spec2Model ----------------------------
(***************************************************************************)
(* A model of llvm-objcopy (src/llvm-objcopy.cpp): main, the copy driver   *)
(* ObjectCopyBase::CopyTo and the three section encoders (binary, Intel    *)
(* HEX, readmemh).                                                         *)
(*                                                                         *)
(* uint64_t values are kept at their full width as four 16-bit limbs,      *)
(* most significant first, so that address arithmetic wraps at 2^64 and    *)
(* printf-style formatting sees every digit.                               *)
(***************************************************************************)
EXTENDS Integers, Sequences, FiniteSets, TLC

(***************************************************************************)
(* Bounds of the model and constants of the program.                       *)
(***************************************************************************)
\* the largest number of sections of an input object
MaxSections == 3
\* (1<<16), the gap size limit of CopyTo
GapLimit == 65536
\* the number of bytes on one Intel HEX data line
LineBytes == 16

Limb == 2^16
Byte == 2^8

(***************************************************************************)
(* uint64_t arithmetic.                                                    *)
(***************************************************************************)
U64(w3, w2, w1, w0) == <<w3, w2, w1, w0>>

\* a small natural number (below 2^31) as a uint64_t
ToU64(n) == <<0, 0, n \div Limb, n % Limb>>

UINT64_MAX == <<Limb - 1, Limb - 1, Limb - 1, Limb - 1>>

\* a + n modulo 2^64, for a uint64_t a and a natural number n below 2^30
Add64(a, n) ==
    LET s0 == a[4] + n
        s1 == a[3] + (s0 \div Limb)
        s2 == a[2] + (s1 \div Limb)
        s3 == a[1] + (s2 \div Limb)
    IN  <<s3 % Limb, s2 % Limb, s1 % Limb, s0 % Limb>>

\* a - b modulo 2^64
Sub64(a, b) ==
    LET d0 == a[4] - b[4]
        c0 == IF d0 < 0 THEN 1 ELSE 0
        d1 == a[3] - b[3] - c0
        c1 == IF d1 < 0 THEN 1 ELSE 0
        d2 == a[2] - b[2] - c1
        c2 == IF d2 < 0 THEN 1 ELSE 0
        d3 == a[1] - b[1] - c2
    IN  <<d3 % Limb, d2 % Limb, d1 % Limb, d0 % Limb>>

\* a < b
Lt64(a, b) ==
    \E i \in 1..4 : a[i] < b[i] /\ \A j \in 1..(i - 1) : a[j] = b[j]

\* a > n, for a natural number n below 2^31
GtNat64(a, n) == Lt64(ToU64(n), a)

\* the value of a uint64_t known to be below 2^31
ToNat(a) == a[3] * Limb + a[4]

\* a >> 16
Shr16(a) == <<0, a[1], a[2], a[3]>>

\* a & 0xffff
Low16(a) == <<0, 0, 0, a[4]>>

\* (unsigned char) a, the low byte
LowByte(a) == a[4] % Byte

\* (a >> 8) & 0xff
SecondByte(a) == (a[4] \div Byte) % Byte

(***************************************************************************)
(* format("%0<width>x", ...): lowercase hexadecimal digits, zero padded to *)
(* a MINIMUM field width, as printf does; more digits are printed when the *)
(* value needs them.                                                       *)
(***************************************************************************)
HexChars ==
    <<"0", "1", "2", "3", "4", "5", "6", "7",
      "8", "9", "a", "b", "c", "d", "e", "f">>

HexChar(n) == HexChars[n + 1]

LimbDigits(w) ==
    <<HexChar(w \div 4096), HexChar((w \div 256) % 16),
      HexChar((w \div 16) % 16), HexChar(w % 16)>>

RECURSIVE StripZeros(_, _)
StripZeros(ds, width) ==
    IF Len(ds) > width /\ Len(ds) > 1 /\ Head(ds) = "0"
    THEN StripZeros(Tail(ds), width)
    ELSE ds

\* format("%0<width>" PRIx64, a)
FormatHex64(a, width) ==
    StripZeros(LimbDigits(a[1]) \o LimbDigits(a[2])
               \o LimbDigits(a[3]) \o LimbDigits(a[4]), width)

\* format("%02" PRIx8, (unsigned char) b)
FormatHex8(b) == <<HexChar(b \div 16), HexChar(b % 16)>>


(***************************************************************************)
(* The input object.  A section is what the object::SectionRef queries of  *)
(* CopyTo return for it: its name, contents, load address and flags, and   *)
(* `fail', the one query on it that returns an error_code ("none" when     *)
(* every query succeeds; "increment" when stepping the iterator past it    *)
(* fails).                                                                 *)
(***************************************************************************)
Section(n, c, a, b, r, f) ==
    [name |-> n, contents |-> c, address |-> a, bss |-> b, required |-> r,
     fail |-> f]

\* 33 bytes at 0xffe8: three Intel HEX lines, two in the first 64 KiB bank
\* and the last, of one byte, in the next
SecText ==
    Section(".text",
            <<127, 69, 76, 70, 0, 255, 128, 1, 2, 3, 4, 5, 6, 7, 8, 9,
              16, 17, 18, 19, 20, 21, 22, 23, 24, 25, 26, 27, 28, 29, 30, 31,
              144>>,
            U64(0, 0, 0, 65512), FALSE, TRUE, "none")
\* starts where .text ends (0x10009)
SecData == Section(".data", <<255>>, U64(0, 0, 1, 9), FALSE, TRUE, "none")
\* two bytes after the end of .data (0x1000c)
SecRodata == Section(".rodata", <<7, 128>>, U64(0, 0, 1, 12), FALSE, TRUE, "none")
\* 65536 bytes after the end of .data, 65537 after the end of .text (0x2000a)
SecFar == Section(".far", <<1>>, U64(0, 0, 2, 10), FALSE, TRUE, "none")
\* at 2^32
SecHimem == Section(".himem", <<0>>, U64(0, 1, 0, 0), FALSE, TRUE, "none")
\* the last byte of the address space: its end address wraps to 1
SecTop == Section(".top", <<5, 6>>, UINT64_MAX, FALSE, TRUE, "none")
SecBss == Section(".bss", <<0, 0>>, U64(0, 0, 1, 10), TRUE, TRUE, "none")
SecEmpty == Section(".empty", <<>>, U64(0, 0, 0, 0), FALSE, TRUE, "none")
SecComment == Section(".comment", <<35>>, U64(0, 0, 0, 0), FALSE, FALSE, "none")
SecNameErr == Section(".e1", <<1>>, U64(0, 0, 1, 10), FALSE, TRUE, "getName")
SecContentsErr == Section(".e2", <<2>>, U64(0, 0, 1, 10), FALSE, TRUE, "getContents")
SecAddressErr == Section(".e3", <<3>>, U64(0, 0, 1, 10), FALSE, TRUE, "getAddress")
SecBssErr == Section(".e4", <<4>>, U64(0, 0, 1, 10), FALSE, TRUE, "isBSS")
SecRequiredErr ==
    Section(".e5", <<5>>, U64(0, 0, 1, 10), FALSE, TRUE, "isRequiredForExecution")
SecIncrementErr == Section(".e6", <<6>>, U64(0, 0, 1, 10), FALSE, TRUE, "increment")

SectionPool ==
    {SecText, SecData, SecRodata, SecFar, SecHimem, SecTop, SecBss, SecEmpty,
     SecComment, SecNameErr, SecContentsErr, SecAddressErr, SecBssErr,
     SecRequiredErr, SecIncrementErr}

\* the section lists an input object may hold
Inputs == UNION {[1..n -> SectionPool] : n \in 0..MaxSections}

OutputFormatTy == {"binary", "intel_hex", "readmemh"}

(***************************************************************************)
(* The encoders.  Each returns what it writes to Out.os(): bytes for the   *)
(* binary format, text lines (each ended by "\n") for the other two.  A    *)
(* line is the sequence of its characters; a section name is one element.  *)
(***************************************************************************)

\* ObjectCopyBinary::PrintSection
PrintSectionBinary(SectionName, SectionContents, SectionAddress) ==
    SectionContents

\* FillGap with a loop that stops one byte short
FillGapBinaryShort(Value, Size) == [i \in 1..(Size - 1) |-> Value]

\* ObjectCopyBinary::FillGap: Size bytes of Value
FillGapBinary(Value, Size) == [i \in 1..Size |-> Value]

\* ObjectCopyBase::FillGap: the empty default
FillGapNone(Value, Size) == <<>>

\* (unsigned char)(-Sum)
Negate8(Sum) == (Byte - (Sum % Byte)) % Byte

RECURSIVE SumBytes(_)
SumBytes(bs) == IF bs = <<>> THEN 0 ELSE Head(bs) + SumBytes(Tail(bs))

RECURSIVE HexBytes(_)
HexBytes(bs) ==
    IF bs = <<>> THEN <<>> ELSE FormatHex8(Head(bs)) \o HexBytes(Tail(bs))

\* the Extended Linear Address record of ObjectCopyIntelHex::PrintSection
ELARecord(Base) ==
    LET Sum == (6 + LowByte(Base) + SecondByte(Base)) % Byte
    IN  <<":", "0", "2", "0", "0", "0", "0", "0", "4">>
        \o FormatHex64(Base, 4) \o FormatHex8(Negate8(Sum))

\* the data record of ObjectCopyIntelHex::PrintSection
DataRecord(LineAddr, Size, Data) ==
    LET Sum0 == (Size + LowByte(LineAddr) + SecondByte(LineAddr)) % Byte
        Sum  == (Sum0 + SumBytes(Data)) % Byte
    IN  <<":">> \o FormatHex64(ToU64(Size), 2)
        \o FormatHex64(Low16(LineAddr), 4) \o <<"0", "0">>
        \o HexBytes(Data) \o FormatHex8(Negate8(Sum))

\* the test with the remembered base ignored
BaseChangedAlways(LastBaseAddr, Base) == TRUE

\* the test for an Extended Linear Address record before a data line
BaseChanged(LastBaseAddr, Base) == LastBaseAddr # Base

\* the line loop of ObjectCopyIntelHex::PrintSection, from offset addr on
RECURSIVE IntelHexLines(_, _, _, _)
IntelHexLines(SectionContents, SectionAddress, addr, LastBaseAddr) ==
    LET end      == Len(SectionContents)
        LineAddr == Add64(SectionAddress, addr)
        Base     == Shr16(LineAddr)
        Size     == IF addr + LineBytes > end THEN end - addr ELSE LineBytes
    IN  IF ~(addr < end) THEN <<>>
        ELSE (IF BaseChanged(LastBaseAddr, Base)
              THEN <<ELARecord(Base)>> ELSE <<>>)
             \o <<DataRecord(LineAddr, Size,
                             SubSeq(SectionContents, addr + 1, addr + Size))>>
             \o IntelHexLines(SectionContents, SectionAddress,
                              addr + LineBytes, Base)

\* ObjectCopyIntelHex::PrintSection
PrintSectionIntelHex(SectionName, SectionContents, SectionAddress) ==
    <<(<<"; Contents of section ", SectionName, "(@">>
       \o FormatHex64(SectionAddress, 8) \o <<"):">>)>>
    \o IntelHexLines(SectionContents, SectionAddress, 0, UINT64_MAX)

\* ObjectCopyReadMemH::PrintSection
PrintSectionReadMemH(SectionName, SectionContents, SectionAddress) ==
    <<(<<"@">> \o FormatHex64(SectionAddress, 1))>>
    \o [i \in 1..Len(SectionContents) |-> FormatHex8(SectionContents[i])]

(***************************************************************************)
(* The state of one run of the program.                                    *)
(***************************************************************************)
VARIABLES
    OutputTarget,     \* the -O option
    pc,               \* "main", "CopyTo", "loop" or "exit"
    exitCode,         \* what main returned; -1 while it runs
    o,                \* "unset", "NULL" or "object": dyn_cast<ObjectFile>(binary)
    sections,         \* the sections of the object, in order
    outFile,          \* the destination: "absent", "open", "kept" or "discarded"
    Out,              \* what was written to Out.os()
    si,               \* the section iterator, an index into sections
    ec,               \* TRUE when the last si.increment(ec) failed
    FillNextGap,
    LastAddress,
    LastSectionName,
    errs              \* the diagnostics written to errs(), one element each

vars ==
    <<OutputTarget, pc, exitCode, o, sections, outFile, Out, si, ec,
      FillNextGap, LastAddress, LastSectionName, errs>>

\* an uninitialized uint64_t; CopyTo never reads LastAddress in this state
Uninitialized == <<>>

\* mFillGaps set by every constructor
mFillGapsAlways(format) == TRUE

\* ObjectCopyBase::ObjectCopyBase and ObjectCopyBinary::ObjectCopyBinary
mBinaryOutput(format) == format = "binary"

mFillGaps(format) == format = "binary"

\* the virtual call PrintSection(Out, SectionName, SectionContents, SectionAddress)
PrintSection(format, SectionName, SectionContents, SectionAddress) ==
    CASE format = "binary" ->
            PrintSectionBinary(SectionName, SectionContents, SectionAddress)
      [] format = "intel_hex" ->
            PrintSectionIntelHex(SectionName, SectionContents, SectionAddress)
      [] format = "readmemh" ->
            PrintSectionReadMemH(SectionName, SectionContents, SectionAddress)

\* the virtual call FillGap(Out, Value, Size)
FillGap(format, Value, Size) ==
    IF format = "binary" THEN FillGapBinary(Value, Size)
    ELSE FillGapNone(Value, Size)

\* the test without its BSS part
SkippedNoBssTest(Required, BSS, SectionContents) ==
    ~Required \/ Len(SectionContents) = 0

\* the test without its Required part
SkippedNoRequiredTest(Required, BSS, SectionContents) ==
    BSS \/ Len(SectionContents) = 0

\* the test after which CopyTo moves on to the next section
Skipped(Required, BSS, SectionContents) ==
    ~Required \/ BSS \/ Len(SectionContents) = 0

\* the gap test with the limit itself refused
GapActionLimitInclusive(SectionAddress, Last) ==
    IF Lt64(SectionAddress, Last) THEN "invalid order"
    ELSE IF SectionAddress = Last THEN "no gap"
    ELSE IF ~Lt64(Sub64(SectionAddress, Last), ToU64(GapLimit))
    THEN "too large"
    ELSE "fill"

\* what CopyTo does about the gap before a section when FillNextGap is set
GapAction(SectionAddress, Last) ==
    IF Lt64(SectionAddress, Last) THEN "invalid order"
    ELSE IF SectionAddress = Last THEN "no gap"
    ELSE IF GtNat64(Sub64(SectionAddress, Last), GapLimit)
    THEN "too large"
    ELSE "fill"

\* every query failure making CopyTo return
FatalQueriesAll ==
    {"getName", "getContents", "getAddress", "isBSS", "isRequiredForExecution"}

\* the queries of CopyTo whose failure makes it return
FatalQueries == {"getName", "getContents", "getAddress"}

\* the queries of CopyTo whose failure makes it continue
SkipQueries == {"isBSS", "isRequiredForExecution"}

Init ==
    /\ OutputTarget \in OutputFormatTy
    /\ pc = "main"
    /\ exitCode = -1
    /\ o = "unset"
    /\ sections = <<>>
    /\ outFile = "absent"
    /\ Out = <<>>
    /\ si = 0
    /\ ec = FALSE
    /\ FillNextGap = FALSE
    /\ LastAddress = Uninitialized
    /\ LastSectionName = ""
    /\ errs = <<>>

\* main returns ret
Return(ret) ==
    /\ pc' = "exit"
    /\ exitCode' = ret

\* an early return that keeps the file
ReturnFromCopyToKeeping ==
    /\ outFile' = "kept"
    /\ Return(0)

\* CopyTo returns before Out.keep(): the destructor of Out removes the file,
\* and main returns 0
ReturnFromCopyTo ==
    /\ outFile' = "discarded"
    /\ Return(0)

\* main: the input file does not exist
MainNoSuchFile ==
    /\ pc = "main"
    /\ errs' = Append(errs, <<"No such file">>)
    /\ Return(1)
    /\ UNCHANGED <<OutputTarget, o, sections, outFile, Out, si, ec,
                   FillNextGap, LastAddress, LastSectionName>>

\* main: createBinary returns an error
MainCreateBinaryFails ==
    /\ pc = "main"
    /\ errs' = Append(errs, <<"createBinary: ", "ec.message()">>)
    /\ Return(1)
    /\ UNCHANGED <<OutputTarget, o, sections, outFile, Out, si, ec,
                   FillNextGap, LastAddress, LastSectionName>>

\* main: the binary is not an ObjectFile; CopyTo is still called, with NULL
MainUnrecognized ==
    /\ pc = "main"
    /\ o' = "NULL"
    /\ errs' = Append(errs, <<"Unrecognized file type.">>)
    /\ pc' = "CopyTo"
    /\ UNCHANGED <<OutputTarget, exitCode, sections, outFile, Out, si, ec,
                   FillNextGap, LastAddress, LastSectionName>>

\* main: the binary is an ObjectFile
MainObject ==
    /\ pc = "main"
    /\ o' = "object"
    /\ sections' \in Inputs
    /\ pc' = "CopyTo"
    /\ UNCHANGED <<OutputTarget, exitCode, outFile, Out, si, ec,
                   FillNextGap, LastAddress, LastSectionName, errs>>

\* CopyTo with o == NULL returns at once; main returns 0
CopyToNull ==
    /\ pc = "CopyTo"
    /\ o = "NULL"
    /\ Return(0)
    /\ UNCHANGED <<OutputTarget, o, sections, outFile, Out, si, ec,
                   FillNextGap, LastAddress, LastSectionName, errs>>

\* CopyTo: the tool_output_file cannot be opened
CopyToOpenFails ==
    /\ pc = "CopyTo"
    /\ o = "object"
    /\ errs' = Append(errs, <<"ErrorInfo">>)
    /\ Return(0)
    /\ UNCHANGED <<OutputTarget, o, sections, outFile, Out, si, ec,
                   FillNextGap, LastAddress, LastSectionName>>

\* CopyTo: the tool_output_file is open; the loop starts at begin_sections()
CopyToOpen ==
    /\ pc = "CopyTo"
    /\ o = "object"
    /\ outFile' = "open"
    /\ Out' = <<>>
    /\ ec' = FALSE
    /\ FillNextGap' = FALSE
    /\ LastAddress' = Uninitialized
    /\ LastSectionName' = ""
    /\ si' = 1
    /\ pc' = "loop"
    /\ UNCHANGED <<OutputTarget, exitCode, o, sections, errs>>

\* si.increment(ec) at the end of an iteration over section s: on an error
\* the iterator stays where it is
Increment(s) ==
    /\ ec' = (s.fail = "increment")
    /\ si' = IF s.fail = "increment" THEN si ELSE si + 1

\* one iteration of the loop of CopyTo: the body for section si, then
\* si.increment(ec)
CopyToSection ==
    /\ pc = "loop"
    /\ si <= Len(sections)
    /\ LET s               == sections[si]
           SectionName     == s.name
           SectionContents == s.contents
           SectionAddress  == s.address
           BSS             == s.bss
           Required        == s.required
       IN
       IF ec \/ s.fail \in FatalQueries
       THEN \* error(ec): report, return
            /\ errs' = Append(errs, <<"error reading file: ", "ec.message()">>)
            /\ ReturnFromCopyTo
            /\ UNCHANGED <<Out, si, ec, FillNextGap, LastAddress,
                           LastSectionName>>
       ELSE IF s.fail \in SkipQueries
       THEN \* error(ec): report, continue
            /\ errs' = Append(errs, <<"error reading file: ", "ec.message()">>)
            /\ Increment(s)
            /\ UNCHANGED <<pc, exitCode, outFile, Out, FillNextGap,
                           LastAddress, LastSectionName>>
       ELSE IF Skipped(Required, BSS, SectionContents)
       THEN /\ Increment(s)
            /\ UNCHANGED <<pc, exitCode, outFile, Out, FillNextGap,
                           LastAddress, LastSectionName, errs>>
       ELSE IF FillNextGap
               /\ GapAction(SectionAddress, LastAddress) = "invalid order"
       THEN /\ errs' = Append(errs,
                              <<"Trying to fill gaps between sections ",
                                LastSectionName, " and ", SectionName,
                                " in invalid order">>)
            /\ ReturnFromCopyTo
            /\ UNCHANGED <<Out, si, ec, FillNextGap, LastAddress,
                           LastSectionName>>
       ELSE IF FillNextGap
               /\ GapAction(SectionAddress, LastAddress) = "too large"
       THEN /\ errs' = Append(errs, <<"Gap between sections is too large">>)
            /\ ReturnFromCopyTo
            /\ UNCHANGED <<Out, si, ec, FillNextGap, LastAddress,
                           LastSectionName>>
       ELSE /\ Out' =
                 Out
                 \o (IF FillNextGap
                        /\ GapAction(SectionAddress, LastAddress) = "fill"
                     THEN FillGap(OutputTarget, 0,
                                  ToNat(Sub64(SectionAddress, LastAddress)))
                     ELSE <<>>)
                 \o PrintSection(OutputTarget, SectionName, SectionContents,
                                 SectionAddress)
            /\ IF mFillGaps(OutputTarget)
               THEN /\ FillNextGap' = TRUE
                    /\ LastSectionName' = SectionName
                    /\ LastAddress' =
                           Add64(SectionAddress, Len(SectionContents))
               ELSE UNCHANGED <<FillNextGap, LastSectionName, LastAddress>>
            /\ Increment(s)
            /\ UNCHANGED <<pc, exitCode, outFile, errs>>
    /\ UNCHANGED <<OutputTarget, o, sections>>

\* the loop of CopyTo ends (si == se): Out.keep(), and main returns 0
CopyToKeep ==
    /\ pc = "loop"
    /\ si > Len(sections)
    /\ outFile' = "kept"
    /\ Return(0)
    /\ UNCHANGED <<OutputTarget, o, sections, Out, si, ec, FillNextGap,
                   LastAddress, LastSectionName, errs>>

Next ==
    \/ MainNoSuchFile
    \/ MainCreateBinaryFails
    \/ MainUnrecognized
    \/ MainObject
    \/ CopyToNull
    \/ CopyToOpenFails
    \/ CopyToOpen
    \/ CopyToSection
    \/ CopyToKeep

Spec == Init /\ [][Next]_vars

(***************************************************************************)
(* Vocabulary of the properties.                                           *)
(***************************************************************************)

\* every query CopyTo makes on section s succeeds
Readable(s) == s.fail \in {"none", "increment"}

\* s is non-empty and not BSS
HasBytes(s) == ~s.bss /\ Len(s.contents) > 0

\* s is what the program emits: readable, non-empty, not BSS and required
Eligible(s) == Readable(s) /\ HasBytes(s) /\ s.required

\* the copy loop is about to run the body for section si
AtSection == pc = "loop" /\ si <= Len(sections)

\* the copy loop has run (and ended, one way or the other)
CopyEnded == pc = "exit" /\ outFile \in {"kept", "discarded"}

\* the indices of the sections whose body has run to its end
Passed == {i \in 1..Len(sections) : i < si \/ (i = si /\ ec)}

\* the sections emitted so far, in input order
RECURSIVE EmittedUpTo(_)
EmittedUpTo(n) ==
    IF n = 0 THEN <<>>
    ELSE EmittedUpTo(n - 1)
         \o (IF n \in Passed /\ Eligible(sections[n])
             THEN <<sections[n]>> ELSE <<>>)

Emitted == EmittedUpTo(Len(sections))

EndAddress(s) == Add64(s.address, Len(s.contents))

Zeros(n) == [i \in 1..n |-> 0]

LastErr == IF errs = <<>> THEN <<>> ELSE errs[Len(errs)]

OrderError == LastErr # <<>> /\ LastErr[Len(LastErr)] = " in invalid order"

TooLargeError == LastErr = <<"Gap between sections is too large">>

\* section s makes the loop stop for a reason other than a gap
ReadFatal(s) == s.fail \in {"getName", "getContents", "getAddress", "increment"}

(***************************************************************************)
(* C1.  CopyTo keeps the destination if and only if the section loop ran   *)
(* to its end: a kept destination means every section was passed and none *)
(* had an iteration, name, contents or address failure nor a gap error; a  *)
(* copy that ended without keeping stopped at a section with such a        *)
(* failure, whatever was written before.                                   *)
(***************************************************************************)
C1_KeptIffLoopRanToEnd ==
    /\ outFile = "kept" =>
          /\ pc = "exit"
          /\ si = Len(sections) + 1
          /\ \A i \in 1..Len(sections) : ~ReadFatal(sections[i])
          /\ ~OrderError /\ ~TooLargeError
    /\ (pc = "exit" /\ outFile # "kept") => exitCode = 1 \/ o = "NULL"
          \/ outFile = "absent"
          \/ /\ outFile = "discarded"
             /\ si <= Len(sections)
             /\ \/ ReadFatal(sections[si])
                \/ OrderError
                \/ TooLargeError
    /\ pc = "exit" => outFile # "open"

\* a copy that failed after writing a section, its destination not kept
C1_Witness ==
    /\ pc = "exit"
    /\ outFile = "discarded"
    /\ Len(Out) > 0
    /\ si = 2

(***************************************************************************)
(* C2.  A section that is BSS or has no contents contributes nothing, in   *)
(* any format: the iteration over it writes nothing and leaves             *)
(* FillNextGap, LastAddress and LastSectionName as they were.              *)
(***************************************************************************)
C2_EmptyOrBssContributesNothing ==
    [][(AtSection /\ ~HasBytes(sections[si])) =>
          /\ Out' = Out
          /\ FillNextGap' = FillNextGap
          /\ LastAddress' = LastAddress
          /\ LastSectionName' = LastSectionName]_vars

\* a BSS section was passed after a section was written; in the binary
\* format the gap state is still that of the written section
C2_Witness ==
    /\ pc = "loop"
    /\ si = 3
    /\ Eligible(sections[1])
    /\ sections[2].bss /\ Readable(sections[2]) /\ sections[2].required
    /\ Len(sections[2].contents) > 0
    /\ Len(Out) > 0
    /\ OutputTarget = "binary"
    /\ LastSectionName = sections[1].name

(***************************************************************************)
(* C8.  A failure reading isBSS or isRequiredForExecution only skips the   *)
(* section: the loop goes on to the next section with the destination      *)
(* still open, and such a failure never is why a copy ends without         *)
(* keeping.  A failure reading the name, the contents or the address ends  *)
(* the copy at once: nothing is written, the destination is not kept, and  *)
(* no step follows.                                                        *)
(***************************************************************************)
C8_FlagFailureSkipsMetadataFailureAborts ==
    /\ [][(AtSection /\ ~ec) =>
            /\ sections[si].fail \in {"isBSS", "isRequiredForExecution"} =>
                  /\ pc' = "loop"
                  /\ si' = si + 1
                  /\ Out' = Out
                  /\ outFile' = "open"
            /\ sections[si].fail \in {"getName", "getContents", "getAddress"} =>
                  /\ pc' = "exit"
                  /\ si' = si
                  /\ Out' = Out
                  /\ outFile' = "discarded"]_vars
    /\ [][pc # "exit"]_vars
    /\ [](CopyEnded =>
            \/ outFile = "kept"
            \/ sections[si].fail \notin {"isBSS", "isRequiredForExecution"})

\* a kept copy in which a flag read failed and a later section was written
C8_Witness ==
    /\ pc = "exit"
    /\ outFile = "kept"
    /\ Len(sections) >= 2
    /\ sections[1].fail \in {"isBSS", "isRequiredForExecution"}
    /\ Eligible(sections[2])
    /\ Len(Out) > 0

(***************************************************************************)
(* C9.  The exit code is 1 when the input is not found, when the binary    *)
(* cannot be opened and when the binary is not an object file, and 0       *)
(* otherwise; when the binary is not an object file no destination is      *)
(* created or written.                                                     *)
(***************************************************************************)
C9_ExitCodes ==
    pc = "exit" =>
        /\ exitCode =
              IF \E i \in 1..Len(errs) :
                    \/ errs[i] = <<"No such file">>
                    \/ errs[i][1] = "createBinary: "
                    \/ errs[i] = <<"Unrecognized file type.">>
              THEN 1 ELSE 0
        /\ o = "NULL" => outFile = "absent" /\ Out = <<>>

(***************************************************************************)
(* C10.  In the Intel HEX and readmemh formats the gap filler stays idle:  *)
(* FillNextGap is never set and LastAddress never assigned, no ordering or *)
(* gap-too-large error is raised, the output is exactly the encodings of   *)
(* the eligible sections passed so far with no filler between them, and a  *)
(* copy ends without keeping only at a read failure.                       *)
(***************************************************************************)
RECURSIVE Encodings(_, _)
Encodings(format, ss) ==
    IF ss = <<>> THEN <<>>
    ELSE PrintSection(format, Head(ss).name, Head(ss).contents,
                      Head(ss).address)
         \o Encodings(format, Tail(ss))

C10_FillerIdleOutsideBinary ==
    OutputTarget # "binary" =>
        /\ ~FillNextGap
        /\ LastAddress = Uninitialized
        /\ ~OrderError /\ ~TooLargeError
        /\ Out = Encodings(OutputTarget, Emitted)
        /\ CopyEnded /\ outFile # "kept" =>
              si <= Len(sections) /\ ReadFatal(sections[si])

\* a kept Intel HEX copy of two sections, the second more than 65536 bytes
\* below the first
C10_Witness ==
    /\ pc = "exit"
    /\ outFile = "kept"
    /\ OutputTarget = "intel_hex"
    /\ Len(sections) = 2
    /\ Eligible(sections[1]) /\ Eligible(sections[2])
    /\ GtNat64(Sub64(sections[1].address, EndAddress(sections[2])), 65536)
    /\ Len(Emitted) = 2

(***************************************************************************)
(* C3.  As claimed: in the binary format a readable, non-empty, non-BSS    *)
(* section is emitted whether or not it is marked required (after the      *)
(* iteration over it, it is the section the gap state remembers); in the   *)
(* other formats it is emitted only if marked required.                    *)
(***************************************************************************)
C3_BinaryIgnoresRequired ==
    (pc = "loop" /\ si > 1 /\ ~ec /\ OutputTarget = "binary") =>
        LET s == sections[si - 1]
        IN  (s.fail = "none" /\ HasBytes(s)) =>
                FillNextGap /\ LastSectionName = s.name

(***************************************************************************)
(* C3, amended.  In every format, the binary format included, a readable,  *)
(* non-empty, non-BSS section is emitted only if it is marked required:    *)
(* the iteration over one that is not required writes nothing and leaves   *)
(* the gap state alone, and the iteration over one that is required either *)
(* writes its encoding last or ends the copy with a gap error.             *)
(***************************************************************************)
C3_RequiredFilterInEveryFormat ==
    [][(AtSection /\ ~ec /\ Readable(sections[si]) /\ HasBytes(sections[si])) =>
          LET s   == sections[si]
              enc == PrintSection(OutputTarget, s.name, s.contents, s.address)
          IN  /\ ~s.required =>
                    /\ Out' = Out
                    /\ pc' = "loop"
                    /\ UNCHANGED <<FillNextGap, LastAddress, LastSectionName>>
              /\ s.required =>
                    \/ /\ pc' = "loop"
                       /\ Len(Out') >= Len(Out) + Len(enc)
                       /\ SubSeq(Out', Len(Out') - Len(enc) + 1, Len(Out')) = enc
                    \/ /\ pc' = "exit"
                       /\ OutputTarget = "binary"
                       /\ OrderError' \/ TooLargeError']_vars

\* the binary format passed a section that has bytes and is not required,
\* and wrote nothing
C3_Witness ==
    /\ OutputTarget = "binary"
    /\ pc = "loop"
    /\ si = 2
    /\ sections[1].fail = "none"
    /\ HasBytes(sections[1])
    /\ ~sections[1].required
    /\ Out = <<>>
    /\ ~FillNextGap

(***************************************************************************)
(* C4.  In the binary format, at every eligible section: before the first  *)
(* emitted section there is no check and no fill; after it, LastAddress is *)
(* the end address of the section emitted last, and the section is         *)
(* refused with an ordering error when its address is below LastAddress,   *)
(* refused with a gap-too-large error when its address is more than 65536  *)
(* above it, and otherwise written right after exactly                     *)
(* address - LastAddress bytes of 0x00 (none when equal, 65536 at most).   *)
(***************************************************************************)
MoreThan65536(d) ==
    d[1] # 0 \/ d[2] # 0 \/ d[3] > 1 \/ (d[3] = 1 /\ d[4] > 0)

C4_BinaryGapRule ==
    [][(AtSection /\ ~ec /\ OutputTarget = "binary" /\ Eligible(sections[si])) =>
          LET s    == sections[si]
              gap  == Sub64(s.address, LastAddress)
              done == Emitted
          IN  IF ~FillNextGap
              THEN /\ done = <<>>
                   /\ Out' = Out \o s.contents
                   /\ pc' = "loop"
              ELSE /\ done # <<>>
                   /\ LastAddress = EndAddress(done[Len(done)])
                   /\ IF Lt64(s.address, LastAddress)
                      THEN /\ OrderError'
                           /\ Out' = Out
                           /\ pc' = "exit" /\ outFile' = "discarded"
                      ELSE IF MoreThan65536(gap)
                      THEN /\ TooLargeError'
                           /\ Out' = Out
                           /\ pc' = "exit" /\ outFile' = "discarded"
                      ELSE /\ Out' = Out \o Zeros(ToNat(gap)) \o s.contents
                           /\ pc' = "loop"
                           /\ errs' = errs]_vars

\* a gap of exactly 65536 bytes was filled
C4_Witness ==
    /\ OutputTarget = "binary"
    /\ pc = "loop"
    /\ Len(Emitted) = 2
    /\ Sub64(Emitted[2].address, EndAddress(Emitted[1])) = <<0, 0, 1, 0>>
    /\ Len(Out) = Len(Emitted[1].contents) + 65536 + Len(Emitted[2].contents)

(***************************************************************************)
(* C5.  A kept binary output is the contiguous image that starts at the    *)
(* address A0 of the first emitted section: its length is the end address  *)
(* of the last emitted section minus A0, which is the sum of the section   *)
(* lengths and of the gaps between consecutive sections; the bytes of each *)
(* emitted section stand at its address minus A0, in input order and       *)
(* without overlap, and every byte between two sections is 0x00.           *)
(***************************************************************************)
RECURSIVE SumLengths(_)
SumLengths(ss) ==
    IF ss = <<>> THEN 0 ELSE Len(Head(ss).contents) + SumLengths(Tail(ss))

RECURSIVE SumGaps(_)
SumGaps(ss) ==
    IF Len(ss) < 2 THEN 0
    ELSE ToNat(Sub64(ss[2].address, EndAddress(ss[1]))) + SumGaps(Tail(ss))

C5_BinaryImage ==
    (pc = "exit" /\ outFile = "kept" /\ OutputTarget = "binary") =>
        LET E      == SelectSeq(sections, Eligible)
            n      == Len(E)
            Off(k) == ToNat(Sub64(E[k].address, E[1].address))
        IN  IF n = 0 THEN Out = <<>>
            ELSE /\ ~MoreThan65536(Shr16(Sub64(EndAddress(E[n]), E[1].address)))
                 /\ Len(Out) = ToNat(Sub64(EndAddress(E[n]), E[1].address))
                 /\ Len(Out) = SumLengths(E) + SumGaps(E)
                 /\ \A k \in 1..n :
                       SubSeq(Out, Off(k) + 1, Off(k) + Len(E[k].contents))
                           = E[k].contents
                 /\ \A k \in 1..(n - 1) :
                       LET end == Off(k) + Len(E[k].contents)
                       IN  /\ end <= Off(k + 1)
                           /\ SubSeq(Out, end + 1, Off(k + 1))
                                  = Zeros(Off(k + 1) - end)

\* a kept binary image of two sections with a gap between them
C5_Witness ==
    /\ pc = "exit"
    /\ outFile = "kept"
    /\ OutputTarget = "binary"
    /\ Len(Emitted) = 2
    /\ Len(Out) > Len(Emitted[1].contents) + Len(Emitted[2].contents)

(***************************************************************************)
(* Reading back an Intel HEX output.                                       *)
(***************************************************************************)
IsRecord(line) == line[1] = ":"

IsELA(line) ==
    /\ Len(line) >= 9
    /\ SubSeq(line, 1, 9) = <<":", "0", "2", "0", "0", "0", "0", "0", "4">>

IsData(line) == IsRecord(line) /\ ~IsELA(line)

HexValue(c) == CHOOSE n \in 0..15 : HexChars[n + 1] = c

\* the bytes a record line encodes, two hexadecimal digits each
RecordBytes(line) ==
    [i \in 1..((Len(line) - 1) \div 2) |->
        16 * HexValue(line[2 * i]) + HexValue(line[2 * i + 1])]

\* for every data line of lines, in order: the Extended Linear Address
\* record right before it, or <<>> when there is none
RECURSIVE ELABefore(_, _)
ELABefore(lines, prev) ==
    IF lines = <<>> THEN <<>>
    ELSE IF IsData(Head(lines))
         THEN <<prev>> \o ELABefore(Tail(lines), <<>>)
         ELSE ELABefore(Tail(lines),
                        IF IsELA(Head(lines)) THEN Head(lines) ELSE <<>>)

\* the data lines section s calls for: the upper-address base and the size
\* of each, and whether it is the first of the section
DataLinesOf(s) ==
    [m \in 1..((Len(s.contents) + 15) \div 16) |->
        [base  |-> Shr16(Add64(s.address, 16 * (m - 1))),
         size  |-> IF 16 * m <= Len(s.contents)
                   THEN 16 ELSE Len(s.contents) - 16 * (m - 1),
         first |-> m = 1]]

RECURSIVE DataLines(_)
DataLines(ss) ==
    IF ss = <<>> THEN <<>> ELSE DataLinesOf(Head(ss)) \o DataLines(Tail(ss))

NumberOfELA == Cardinality({i \in 1..Len(Out) : IsELA(Out[i])})

(***************************************************************************)
(* C6.  As claimed: across one Intel HEX run, an Extended Linear Address   *)
(* record stands before a data line exactly when the line is the first of  *)
(* the run or its upper-address base differs from the base of the data     *)
(* line before it (the base of the record emitted last), also when the two *)
(* lines belong to two consecutive sections.                               *)
(***************************************************************************)
C6_OneRecordPerBankChangeInRun ==
    OutputTarget = "intel_hex" =>
        LET want == DataLines(Emitted)
            got  == ELABefore(Out, <<>>)
        IN  /\ Len(got) = Len(want)
            /\ \A n \in 1..Len(got) :
                  (got[n] # <<>>) <=>
                      (n = 1 \/ want[n].base # want[n - 1].base)

(***************************************************************************)
(* C6, amended.  An Extended Linear Address record stands before a data    *)
(* line exactly when the line is the first of its section or its           *)
(* upper-address base differs from the base of the data line before it in  *)
(* the same section; the record carries that base, and there is no other   *)
(* such record.  So the record is not repeated within a section for lines  *)
(* of one bank, and is emitted again at the start of every section.        *)
(***************************************************************************)
C6_OneRecordPerBankChangeInSection ==
    OutputTarget = "intel_hex" =>
        LET want == DataLines(Emitted)
            got  == ELABefore(Out, <<>>)
        IN  /\ Len(got) = Len(want)
            /\ \A n \in 1..Len(got) :
                  /\ (got[n] # <<>>) <=>
                        (want[n].first \/ want[n].base # want[n - 1].base)
                  /\ got[n] # <<>> =>
                        SubSeq(got[n], 10, Len(got[n]) - 2)
                            = FormatHex64(want[n].base, 4)
            /\ NumberOfELA = Cardinality({n \in 1..Len(got) : got[n] # <<>>})

\* two sections were encoded, the first with two lines in one bank and a
\* third in the next bank, where the second section lies too
C6_Witness ==
    /\ OutputTarget = "intel_hex"
    /\ pc = "exit"
    /\ outFile = "kept"
    /\ Len(Emitted) = 2
    /\ LET want == DataLines(Emitted)
       IN  /\ Len(want) = 4
           /\ want[1].base = want[2].base
           /\ want[2].base # want[3].base
           /\ want[3].base = want[4].base
           /\ want[4].first
    /\ NumberOfELA = 3

(***************************************************************************)
(* C7.  Every record line of an Intel HEX output (data records and         *)
(* Extended Linear Address records) encodes whole bytes whose sum is 0     *)
(* modulo 256, its first byte being the number of its data bytes; the data *)
(* records carry the bytes of each section 16 at a time, the last record   *)
(* of a section carrying what remains.                                     *)
(***************************************************************************)
C7_RecordChecksums ==
    OutputTarget = "intel_hex" =>
        /\ \A i \in 1..Len(Out) :
              IsRecord(Out[i]) =>
                  LET bytes == RecordBytes(Out[i])
                  IN  /\ (Len(Out[i]) - 1) % 2 = 0
                      /\ Len(bytes) >= 5
                      /\ bytes[1] = Len(bytes) - 5
                      /\ SumBytes(bytes) % 256 = 0
        /\ LET data == SelectSeq(Out, IsData)
               want == DataLines(Emitted)
           IN  /\ Len(data) = Len(want)
               /\ \A n \in 1..Len(data) :
                     /\ RecordBytes(data[n])[1] = want[n].size
                     /\ want[n].size <= 16

(***************************************************************************)
(* C7, where it does hold: when every section lies below 2^32, so that the *)
(* upper-address base fits the four digits of the record.                  *)
(***************************************************************************)
C7_RecordChecksumsBelow4GiB ==
    (\A i \in 1..Len(sections) :
        sections[i].address[1] = 0 /\ sections[i].address[2] = 0)
    => C7_RecordChecksums

=============================================================================
